---- MODULE Spec2Model ----
(***************************************************************************)
(* Model of the query-library retrieval layer of example-repo:             *)
(*   plugins/vectorstore.py  WeaviateAdapter (the Store Adapter)           *)
(*   plugins/weaviate.py     QueryLibraryPlugin.get_query_suggestions      *)
(* The backing vector database (the weaviate client) and the embedding     *)
(* client are collaborators: each call on them either has its documented   *)
(* effect or raises.                                                       *)
(***************************************************************************)
EXTENDS Integers, Sequences, FiniteSets, TLC

VARIABLES store, closed, closeCalls, pl, th, last

vars == <<store, closed, closeCalls, pl, th, last>>

\* ------------------------------------------------------------------ bounds
\* total number of objects held by the backing store
MaxEntries == 2
\* longest batch handed to insert_many
MaxBatch == 2
\* largest limit handed to query_nearest
MaxLimit == 3
\* number of close() calls followed
MaxClose == 2

\* ------------------------------------------------------- program constants
\* query_nearest(..., limit: int = 3)
DefaultLimit == 3
\* get_query_suggestions: query_nearest(COLLECTION_NAME, ..., limit=3)
PipelineLimit == 3

\* plugins.config.COLLECTION_NAME
COLLECTION_NAME == "queries"

Names == {COLLECTION_NAME, "other"}

\* the collections that are filled and searched: the repository fills and
\* searches COLLECTION_NAME only; the second name is created and deleted
Populated == {COLLECTION_NAME}

\* ------------------------------------------------------------- data model
\* Python None for a vector / a missing distance
NoVector == <<>>
NoDistance == -1

\* dict.get(key, default)
Get(d, k, default) == IF k \in DOMAIN d THEN d[k] ELSE default

\* caller-side items handed to insert_many (dicts; a key may be missing)
ItemA == [title |-> "a", description |-> "da", query |-> "qa", vector |-> <<1, 0>>]
ItemB == [title |-> "b", description |-> "db", query |-> "qb", vector |-> <<1, 0>>]
ItemC == [title |-> "c", query |-> "qc", vector |-> <<0, 1>>]
Items == {ItemA, ItemB, ItemC}

\* query vectors
Vectors == {<<1, 0>>, <<0, 1>>}

\* sequences over S of length at most n
SeqUpTo(S, n) == UNION {[1..k -> S] : k \in 0..n}

Batches == SeqUpTo(Items, MaxBatch)

Limits == 1..MaxLimit

\* an absent collection
Absent == [exists |-> FALSE, props |-> <<>>, vectorizer |-> "", objs |-> <<>>]

\* create_collection: the default properties
DefaultProperties == <<"title", "description", "query">>
\* a caller-supplied properties_schema
CustomProperties == <<"title">>
\* the properties_schema argument: <<>> stands for None
Schemas == {<<>>, CustomProperties}

TotalObjs(s) == Len(s[COLLECTION_NAME].objs) + Len(s["other"].objs)

\* --------------------------------------------------- the backing database
\* distance of the backing index between a stored vector and the query vector
Distance(v, q) == (v[1] - q[1]) * (v[1] - q[1]) + (v[2] - q[2]) * (v[2] - q[2])

\* client.collections.create(name, vectorizer_config=none, properties)
ClientCreate(s, n, props) ==
  [s EXCEPT ![n] = [exists |-> TRUE, props |-> props, vectorizer |-> "none", objs |-> <<>>]]

\* client.collections.delete(name)
ClientDelete(s, n) == [s EXCEPT ![n] = Absent]

\* collection.data.insert_many(prepared)
ClientInsertMany(s, n, prepared) == [s EXCEPT ![n].objs = @ \o prepared]

\* injective index sequences of length m into 1..n
IndexSeqs(n, m) == {r \in [1..m -> 1..n] : \A i, j \in 1..m : i /= j => r[i] /= r[j]}

Min(a, b) == IF a <= b THEN a ELSE b

\* collection.query.near_vector(near_vector, limit, return_metadata=distance):
\* the index sequences the database may answer with: the limit nearest objects,
\* closest first; the order among equal distances is the database's choice
NearVector(objs, q, limit) ==
  LET n == Len(objs)
      m == Min(limit, n)
      d(i) == Distance(objs[i].vector, q)
  IN {r \in IndexSeqs(n, m) :
        /\ \A i \in 1..m : \A j \in 1..m : i < j => d(r[i]) <= d(r[j])
        /\ \A k \in 1..n : (\A i \in 1..m : r[i] /= k) => \A i \in 1..m : d(r[i]) <= d(k)}

\* the objects of a near_vector answer: properties plus metadata.distance
ResultObjects(objs, q, r) ==
  [i \in 1..Len(r) |->
     [properties |-> objs[r[i]].properties,
      metadata |-> [distance |-> Distance(objs[r[i]].vector, q)]]]

\* ------------------------------------------------ one call into the adapter
\* The running call: the store as it stands, the requests sent to the backing
\* database so far, whether an exception is propagating, and the value returned.
\* fault = i makes the i-th request of the call raise (0: none does).
Start(s, isClosed, fault) ==
  [store |-> s, closed |-> isClosed, fault |-> fault, reqs |-> <<>>,
   raised |-> FALSE, transport |-> FALSE, msg |-> "", value |-> <<>>]

\* a request `req` to the backing database: it raises when the connection fails
\* (or is closed) or when the database refuses it; otherwise it leaves store `s2`
Request(c, req, refused, s2) ==
  IF c.raised THEN c
  ELSE LET i == Len(c.reqs) + 1
           broken == c.closed \/ c.fault = i
       IN IF broken \/ refused
          THEN [c EXCEPT !.reqs = Append(@, req), !.raised = TRUE,
                         !.transport = broken,
                         !.msg = IF broken THEN "connection failed" ELSE "refused: " \o req[1]]
          ELSE [c EXCEPT !.reqs = Append(@, req), !.store = s2]

Returning(c, v) == IF c.raised THEN c ELSE [c EXCEPT !.value = v]

\* ------------------------------------------------------- WeaviateAdapter
\* exists: return self.client.collections.exists(collection_name)
Exists(c, n) ==
  Returning(Request(c, <<"exists", n>>, FALSE, c.store), <<c.store[n].exists>>)

\* a create_collection that sends the create request without looking first
CreateCollectionUnguarded(c, n, schema) ==
  LET properties == IF schema = <<>> THEN DefaultProperties ELSE schema
  IN Returning(Request(c, <<"create", n>>, c.store[n].exists,
                       ClientCreate(c.store, n, properties)), <<>>)

\* a guard that lets the create request through whatever exists answered
ShouldCreateAlways(found) == TRUE

\* create_collection: `if not self.exists(collection_name):`
ShouldCreate(found) == ~found

\* create_collection: the branch that builds the properties and sends the
\* create request; the database refuses a name it already holds
SendCreate(c, n, schema) ==
  LET properties == IF schema = <<>> THEN DefaultProperties ELSE schema
  IN Returning(Request(c, <<"create", n>>, c.store[n].exists,
                       ClientCreate(c.store, n, properties)), <<>>)

\* create_collection(collection_name, properties_schema=None)
CreateCollection(c, n, schema) ==
  LET e == Exists(c, n)
  IN IF e.raised THEN e
     ELSE IF ShouldCreate(e.value[1])
          THEN SendCreate(e, n, schema)
          ELSE Returning(e, <<>>)

\* a delete_collection that sends the delete request without looking first
DeleteCollectionUnguarded(c, n) ==
  Returning(Request(c, <<"delete", n>>, FALSE, ClientDelete(c.store, n)), <<>>)

\* delete_collection(collection_name)
DeleteCollection(c, n) ==
  LET e == Exists(c, n)
  IN IF e.raised THEN e
     ELSE IF e.value[1]
          THEN Returning(Request(e, <<"delete", n>>, FALSE, ClientDelete(e.store, n)), <<>>)
          ELSE Returning(e, <<>>)

\* insert_many: the shape prepared for one item
Prepare(it) ==
  [properties |-> [title |-> Get(it, "title", ""),
                   description |-> Get(it, "description", ""),
                   query |-> Get(it, "query", "")],
   vector |-> Get(it, "vector", NoVector)]

\* a loop that gives every prepared object the vector of the first item
PrepareAllFirstVector(items) ==
  [i \in 1..Len(items) |-> [Prepare(items[i]) EXCEPT !.vector = Prepare(items[1]).vector]]

\* insert_many: the loop over items
PrepareAll(items) == [i \in 1..Len(items) |-> Prepare(items[i])]

\* an insert_many that does not create a missing collection
InsertManyNoCreate(c, n, items) ==
  Returning(Request(c, <<"insert_many", n>>, ~c.store[n].exists,
                    ClientInsertMany(c.store, n, PrepareAll(items))), <<>>)

\* insert_many: from collections.get on, the prepared objects are sent
SendInsert(c, n, items) ==
  Returning(Request(c, <<"insert_many", n>>, ~c.store[n].exists,
                    ClientInsertMany(c.store, n, PrepareAll(items))), <<>>)

\* insert_many(collection_name, items)
InsertMany(c, n, items) ==
  LET e == Exists(c, n)
      ready == IF e.raised THEN e
               ELSE IF ~e.value[1] THEN CreateCollection(e, n, <<>>) ELSE e
  IN SendInsert(ready, n, items)

\* a record that also carries an id (the object's title standing for its uuid)
ResultRecordWithId(obj) ==
  [id |-> Get(obj.properties, "title", ""),
   title |-> Get(obj.properties, "title", ""),
   description |-> Get(obj.properties, "description", ""),
   query |-> Get(obj.properties, "query", ""),
   distance |-> obj.metadata.distance]

\* query_nearest: one record of `out`
ResultRecord(obj) ==
  [title |-> Get(obj.properties, "title", ""),
   description |-> Get(obj.properties, "description", ""),
   query |-> Get(obj.properties, "query", ""),
   distance |-> IF "metadata" \in DOMAIN obj /\ "distance" \in DOMAIN obj.metadata
                THEN obj.metadata.distance ELSE NoDistance]

\* a loop that prepends instead of appending
NormalizeReversed(objects) ==
  [i \in 1..Len(objects) |-> ResultRecord(objects[Len(objects) + 1 - i])]

\* query_nearest: the loop over result.objects
Normalize(objects) == [i \in 1..Len(objects) |-> ResultRecord(objects[i])]

\* a search that always asks for the default number of results
QueryLimitDefault(limit) == DefaultLimit

\* the limit handed to near_vector
QueryLimit(limit) == limit

\* a query_nearest that reads the first result without looking whether there is one
QueryNearestFirstRead(c, n, q, limit, r) ==
  LET objs == c.store[n].objs
      got == Request(c, <<"near_vector", n>>, ~c.store[n].exists \/ Len(objs) = 0, c.store)
  IN Returning(got, Normalize(ResultObjects(objs, q, r)))

\* query_nearest(collection_name, vector, limit); r is the database's answer
QueryNearest(c, n, q, limit, r) ==
  LET objs == c.store[n].objs
      got == Request(c, <<"near_vector", n>>, ~c.store[n].exists, c.store)
  IN Returning(got, Normalize(ResultObjects(objs, q, r)))

\* the answers the database may give to query_nearest's request
Answers(s, n, q, limit) ==
  IF s[n].exists THEN NearVector(s[n].objs, q, QueryLimit(limit)) ELSE {<<>>}

\* an iterator call that, like insert_many, creates the collection it misses
GetCollectionIteratorCreating(c, n) ==
  LET ready == IF c.store[n].exists THEN c ELSE SendCreate(c, n, <<>>)
      got == Request(ready, <<"iterate", n>>, ~ready.store[n].exists, ready.store)
  IN Returning(got, ready.store[n].objs)

\* get_collection_iterator(collection_name): collections.get(name).iterator(),
\* with the caller's pass over the iterator: the database is asked for the
\* objects of the collection (and refuses when it has no such collection); the
\* value is what the iterator yields
GetCollectionIterator(c, n) ==
  LET got == Request(c, <<"iterate", n>>, ~c.store[n].exists, c.store)
  IN Returning(got, c.store[n].objs)

\* a close without the try/except around the client's close
CloseUnprotected(c) ==
  LET r == Request([c EXCEPT !.closed = FALSE], <<"close", "">>, FALSE, c.store)
  IN [r EXCEPT !.closed = c.closed \/ ~r.raised]

\* close: try: self.client.close() except Exception: pass
Close(c) ==
  LET r == Request([c EXCEPT !.closed = FALSE], <<"close", "">>, FALSE, c.store)
  IN [r EXCEPT !.raised = FALSE, !.msg = "", !.closed = c.closed \/ ~r.raised]

\* ------------------------------------------------- the embedding client
Purposes == {"count of subscriptions", "cpu usage"}

\* EmbeddingsClient.get_embedding(text): a sequence of vectors
Embedding(purpose) ==
  IF purpose = "count of subscriptions" THEN << <<1, 0>> >> ELSE << <<0, 1>> >>

\* how the awaited get_embedding call ends: it returns, it raises an Exception
\* (with some message, possibly empty), or the await is cancelled
\* (asyncio.CancelledError, which is not an Exception)
EmbedOutcomes ==
  { [kind |-> "ok", msg |-> ""],
    [kind |-> "raise", msg |-> "embedding service unavailable"],
    [kind |-> "raise", msg |-> ""],
    [kind |-> "cancel", msg |-> ""] }

\* ------------------------------------------------ QueryLibraryPlugin
\* the keywords argument: a list of strings, a list holding a non-string, or None
Str(t) == [isStr |-> TRUE, text |-> t]
NonStr(t) == [isStr |-> FALSE, text |-> t]
Kw(elems) == [isList |-> TRUE, elems |-> elems]
KwNone == [isList |-> FALSE, elems |-> <<>>]
Keywords ==
  { Kw(<<>>), Kw(<<Str("subscriptions"), Str("count")>>), Kw(<<NonStr("7")>>), KwNone }

\* ', '.join(keywords) raises TypeError unless keywords is an iterable of strings
JoinRaises(kw) == ~kw.isList \/ \E i \in 1..Len(kw.elems) : ~kw.elems[i].isStr

\* a logging line that tolerates any keywords value
JoinNeverRaises(kw) == FALSE

\* the message of the missing-collection response
MissingMessage ==
  "Collection '" \o COLLECTION_NAME \o
  "' does not exist, please make sure to populate it with query examples."

\* DashboardQuery(id=obj.get("id", ""), title=..., description=..., query=...)
DashboardQuery(obj) ==
  [id |-> Get(obj, "id", ""), title |-> Get(obj, "title", ""),
   description |-> Get(obj, "description", ""), query |-> Get(obj, "query", "")]

\* a loop that skips a record equal to the one before it
FormatDeduplicated(result) ==
  LET keep == {i \in 1..Len(result) : i = 1 \/ DashboardQuery(result[i]) /= DashboardQuery(result[i - 1])}
      pos(k) == CHOOSE i \in keep : Cardinality({j \in keep : j <= i}) = k
  IN [k \in 1..Cardinality(keep) |-> DashboardQuery(result[pos(k)])]

\* the loop building `queries`
Format(result) == [i \in 1..Len(result) |-> DashboardQuery(result[i])]

\* an except clause that keeps what was found
ErrorResponseKeeping(msg) == [error |-> msg, queries |-> <<[id |-> "", title |-> "", description |-> "", query |-> ""]>>]

\* except Exception as e: return {"error": str(e), "queries": []}
ErrorResponse(msg) == [error |-> msg, queries |-> <<>>]

\* a missing-collection branch that reports nothing
MissingResponseSilent == [queries |-> <<>>]

\* if not exists: return {"error": f"Collection ... does not exist ...", "queries": []}
MissingResponse == ErrorResponse(MissingMessage)

\* a body that searches without asking first whether the collection exists
BodyNoCheck(c, purpose, e, r) ==
  IF e.kind = "cancel"
  THEN [escaped |-> TRUE, exc |-> "CancelledError", response |-> <<>>, ctx |-> c]
  ELSE IF e.kind = "raise"
  THEN [escaped |-> FALSE, exc |-> "", response |-> ErrorResponse(e.msg), ctx |-> c]
  ELSE LET qn == QueryNearest(c, COLLECTION_NAME, Embedding(purpose)[1], PipelineLimit, r)
       IN IF qn.raised
          THEN [escaped |-> FALSE, exc |-> "", response |-> ErrorResponse(qn.msg), ctx |-> qn]
          ELSE [escaped |-> FALSE, exc |-> "",
                response |-> [queries |-> Format(qn.value)], ctx |-> qn]

\* a body that asks whether the collection exists before it looks at how the
\* embedding ended
BodyChecksFirst(c, purpose, e, r) ==
  LET ex == Exists(c, COLLECTION_NAME)
  IN IF e.kind = "cancel"
     THEN [escaped |-> TRUE, exc |-> "CancelledError", response |-> <<>>, ctx |-> c]
     ELSE IF ex.raised
     THEN [escaped |-> FALSE, exc |-> "", response |-> ErrorResponse(ex.msg), ctx |-> ex]
     ELSE IF e.kind = "raise"
     THEN [escaped |-> FALSE, exc |-> "", response |-> ErrorResponse(e.msg), ctx |-> ex]
     ELSE IF ~ex.value[1]
     THEN [escaped |-> FALSE, exc |-> "", response |-> MissingResponse, ctx |-> ex]
     ELSE LET qn == QueryNearest(ex, COLLECTION_NAME, Embedding(purpose)[1],
                                 PipelineLimit, r)
          IN IF qn.raised
             THEN [escaped |-> FALSE, exc |-> "",
                   response |-> ErrorResponse(qn.msg), ctx |-> qn]
             ELSE [escaped |-> FALSE, exc |-> "",
                   response |-> [queries |-> Format(qn.value)], ctx |-> qn]

\* The body of get_query_suggestions from the return of the awaited
\* get_embedding on: what the call ends with. c is the adapter call context,
\* e how the embedding ended, r the database's answer to the search.
\*   escaped: an exception leaves the coroutine; response: the value returned
Body(c, purpose, e, r) ==
  IF e.kind = "cancel"
  THEN [escaped |-> TRUE, exc |-> "CancelledError", response |-> <<>>, ctx |-> c]
  ELSE IF e.kind = "raise"
  THEN [escaped |-> FALSE, exc |-> "", response |-> ErrorResponse(e.msg), ctx |-> c]
  ELSE LET embedded_question == Embedding(purpose)
           ex == Exists(c, COLLECTION_NAME)
       IN IF ex.raised
          THEN [escaped |-> FALSE, exc |-> "", response |-> ErrorResponse(ex.msg), ctx |-> ex]
          ELSE IF ~ex.value[1]
          THEN [escaped |-> FALSE, exc |-> "", response |-> MissingResponse, ctx |-> ex]
          ELSE LET qn == QueryNearest(ex, COLLECTION_NAME, embedded_question[1],
                                      PipelineLimit, r)
               IN IF qn.raised
                  THEN [escaped |-> FALSE, exc |-> "",
                        response |-> ErrorResponse(qn.msg), ctx |-> qn]
                  ELSE [escaped |-> FALSE, exc |-> "",
                        response |-> [queries |-> Format(qn.value)], ctx |-> qn]

\* ------------------------------------------------------------- the state
\* pl: for each invocation of get_query_suggestions its frame: suspended at
\*     `await get_embedding` (pc = "embed") with its arguments, or not running
\*     (pc = "idle"). Two coroutines can be in flight on one plugin.
\* th: for each thread that calls into the adapter, the call it is in, request
\*     by request (the adapter's methods hold no lock)
\* last: the call that completed last: what it was given, the store before it,
\*     how it ended and the requests it sent to the backing database
Invocations == {"first", "second"}

Idle == [pc |-> "idle", purpose |-> "", keywords |-> Kw(<<>>)]

NoneInFlight == [i \in Invocations |-> Idle]

\* a plugin that keeps the purpose being embedded in a field of its own
SuspendShared(frames, i, purpose, kw) ==
  [j \in Invocations |->
     IF j = i THEN [pc |-> "embed", purpose |-> purpose, keywords |-> kw]
     ELSE IF frames[j].pc = "embed" THEN [frames[j] EXCEPT !.purpose = purpose]
     ELSE frames[j]]

\* the coroutine of invocation i suspends, its arguments in its own frame
Suspend(frames, i, purpose, kw) ==
  [frames EXCEPT ![i] = [pc |-> "embed", purpose |-> purpose, keywords |-> kw]]

Threads == {"t1", "t2"}

IdleThread ==
  [pc |-> "idle", op |-> "", name |-> "", schema |-> <<>>, items |-> <<>>,
   pre |-> <<>>, reqs |-> <<>>, seen |-> <<>>, outcome |-> "none", msg |-> "",
   alone |-> TRUE, createdOver |-> FALSE]

NoThread == [t \in Threads |-> IdleThread]

NoCall ==
  [op |-> "none", name |-> "", args |-> <<>>, pre |-> <<>>, outcome |-> "none",
   value |-> <<>>, reqs |-> <<>>, transport |-> FALSE, msg |-> ""]

\* the record of a completed adapter call
Completed(op, n, args, c) ==
  [op |-> op, name |-> n, args |-> args, pre |-> store,
   outcome |-> IF c.raised THEN "raise" ELSE "return",
   value |-> IF c.raised THEN <<>> ELSE c.value,
   reqs |-> c.reqs, transport |-> c.transport, msg |-> c.msg]

Init ==
  /\ store = [n \in Names |-> Absent]
  /\ closed = FALSE
  /\ closeCalls = 0
  /\ pl = NoneInFlight
  /\ th = NoThread
  /\ last = NoCall

\* the requests at which a call may be made to fail: 0 (none) or any request
\* the undisturbed call sends
FaultPoints(c) == 0..Len(c.reqs)

\* one adapter call that is not close: its effect on the store, and its record
Apply(op, n, args, c) ==
  /\ store' = c.store
  /\ last' = Completed(op, n, args, c)
  /\ UNCHANGED <<closed, closeCalls, pl, th>>

DoExists ==
  \E n \in Names :
   \E f \in FaultPoints(Exists(Start(store, closed, 0), n)) :
    Apply("exists", n, <<>>, Exists(Start(store, closed, f), n))

DoCreateCollection ==
  \E n \in Names, schema \in Schemas :
   \E f \in FaultPoints(CreateCollection(Start(store, closed, 0), n, schema)) :
    Apply("create_collection", n, schema,
          CreateCollection(Start(store, closed, f), n, schema))

DoDeleteCollection ==
  \E n \in Names :
   \E f \in FaultPoints(DeleteCollection(Start(store, closed, 0), n)) :
    Apply("delete_collection", n, <<>>, DeleteCollection(Start(store, closed, f), n))

DoInsertMany ==
  \E n \in Populated, items \in Batches :
   \E f \in FaultPoints(InsertMany(Start(store, closed, 0), n, items)) :
    /\ TotalObjs(store) + Len(items) <= MaxEntries
    /\ Apply("insert_many", n, items, InsertMany(Start(store, closed, f), n, items))

DoQueryNearest ==
  \E n \in Populated \cup {m \in Names : ~store[m].exists}, q \in Vectors, limit \in Limits, f \in 0..1 :
    \E r \in Answers(store, n, q, limit) :
      Apply("query_nearest", n, [vector |-> q, limit |-> limit],
            QueryNearest(Start(store, closed, f), n, q, limit, r))

DoGetCollectionIterator ==
  \E n \in Names, f \in 0..1 :
    Apply("get_collection_iterator", n, <<>>,
          GetCollectionIterator(Start(store, closed, f), n))

DoClose ==
  \E f \in 0..1 :
    /\ closeCalls < MaxClose
    /\ LET c == Close(Start(store, closed, f))
       IN /\ closed' = c.closed
          /\ closeCalls' = closeCalls + Len(c.reqs)
          /\ last' = Completed("close", "", <<>>, c)
          /\ UNCHANGED <<store, pl, th>>

\* get_query_suggestions is called: the logging line, then the coroutine
\* suspends at `await self.embeddings_client.get_embedding(query_purpose)`
GqsCallOf(i) ==
  \E purpose \in Purposes, kw \in Keywords :
    /\ pl[i].pc = "idle"
    /\ IF JoinRaises(kw)
       THEN /\ last' = [NoCall EXCEPT !.op = "get_query_suggestions",
                          !.args = [purpose |-> purpose, keywords |-> kw,
                                    embed |-> "not called"],
                          !.pre = store, !.outcome = "raise", !.msg = "TypeError"]
            /\ UNCHANGED pl
       ELSE /\ pl' = Suspend(pl, i, purpose, kw)
            /\ UNCHANGED last
    /\ UNCHANGED <<store, closed, closeCalls, th>>

\* the awaited embedding ends and the rest of the body runs to its return
GqsResumeOf(i) ==
  /\ pl[i].pc = "embed"
  /\ \E e \in EmbedOutcomes, f \in 0..2 :
    \E r \in Answers(store, COLLECTION_NAME, Embedding(pl[i].purpose)[1], PipelineLimit) :
      /\ LET b == Body(Start(store, closed, f), pl[i].purpose, e, r)
         IN /\ last' = [op |-> "get_query_suggestions", name |-> COLLECTION_NAME,
                       args |-> [purpose |-> pl[i].purpose, keywords |-> pl[i].keywords,
                                 embed |-> e.kind,
                                 beside |-> {j \in Invocations \ {i} :
                                               pl[j].pc = "embed"}],
                       pre |-> store,
                       outcome |-> IF b.escaped THEN "raise" ELSE "return",
                       value |-> b.response, reqs |-> b.ctx.reqs,
                       transport |-> b.ctx.transport,
                       msg |-> IF b.escaped THEN b.exc ELSE b.ctx.msg]
            /\ store' = b.ctx.store
      /\ pl' = [pl EXCEPT ![i] = Idle]
      /\ UNCHANGED <<closed, closeCalls, th>>

\* the plugin serving one invocation at a time
GqsCall == GqsCallOf("first")

GqsResume == GqsResumeOf("first")

Next ==
  \/ DoExists
  \/ DoCreateCollection
  \/ DoDeleteCollection
  \/ DoInsertMany
  \/ DoQueryNearest
  \/ DoGetCollectionIterator
  \/ DoClose
  \/ GqsCall
  \/ GqsResume

Spec == Init /\ [][Next]_vars

\* The collection operations of the adapter alone (connection open, no
\* pipeline invocation in flight).
NextStore ==
  \/ DoExists
  \/ DoCreateCollection
  \/ DoDeleteCollection
  \/ DoInsertMany
  \/ DoQueryNearest

SpecStore == Init /\ [][NextStore]_vars

\* The connection's life: close, among the collection-level calls.
NextLifecycle ==
  \/ DoExists
  \/ DoCreateCollection
  \/ DoDeleteCollection
  \/ DoClose

SpecLifecycle == Init /\ [][NextLifecycle]_vars

\* The pipeline over a store that other callers fill and delete.
NextPipeline ==
  \/ DoDeleteCollection
  \/ DoInsertMany
  \/ GqsCall
  \/ GqsResume

SpecPipeline == Init /\ [][NextPipeline]_vars

\* =========================================================== properties
Gqs == "get_query_suggestions"

IsSuccess(resp) == DOMAIN resp = {"queries"}
IsFailure(resp) == DOMAIN resp = {"error", "queries"} /\ resp.queries = <<>>

\* some collaborator raised during the last pipeline call
SomethingRaised == last.args.embed \in {"raise", "cancel"} \/ last.msg /= "" \/ last.transport

\* C1: get_query_suggestions never lets an exception escape: every call, for
\* every purpose and keywords and whatever the embedding client and the store
\* do, ends by returning a response, and when anything raised that response is
\* {error: message, queries: []}.
C1_NeverEscapes ==
  last.op = Gqs =>
    /\ last.outcome = "return"
    /\ SomethingRaised => IsFailure(last.value)

\* in the last pipeline call the embedding succeeded and exists(COLLECTION_NAME)
\* returned false
MissingCase ==
  /\ last.op = Gqs
  /\ last.args.embed = "ok"
  /\ last.reqs = << <<"exists", COLLECTION_NAME>> >>
  /\ ~last.transport
  /\ ~last.pre[COLLECTION_NAME].exists

\* C2: when the embedding step succeeds and exists(COLLECTION_NAME) returns
\* false, the call returns {error: <non-empty string>, queries: []} and raises
\* nothing.
C2_MissingCollection ==
  MissingCase =>
    /\ last.outcome = "return"
    /\ IsFailure(last.value)
    /\ last.value.error /= ""

C2_Witness == MissingCase /\ last.outcome = "return"

Sent(reqs, kind) == {i \in 1..Len(reqs) : reqs[i][1] = kind}

\* C4: create_collection on a collection that already exists is a no-op: no
\* create request reaches the backing store, the store (schema and entries) is
\* unchanged and there is no error; so of two successive create_collection
\* calls for the same name the second changes nothing and sends no create, and
\* the two together send exactly one create when the name was absent.
C4_CreateIdempotent ==
  [][ /\ (/\ last'.op = "create_collection"
          /\ last'.pre[last'.name].exists
          /\ ~last'.transport)
        => /\ last'.outcome = "return"
           /\ Sent(last'.reqs, "create") = {}
           /\ store' = last'.pre
      /\ (/\ last.op = "create_collection"
          /\ last.outcome = "return"
          /\ last'.op = "create_collection"
          /\ last'.name = last.name
          /\ ~last'.transport)
        => /\ last'.outcome = "return"
           /\ store' = store
           /\ Sent(last'.reqs, "create") = {}
           /\ Cardinality(Sent(last.reqs, "create"))
                = IF last.pre[last.name].exists THEN 0 ELSE 1
    ]_vars

\* a create_collection with another schema on a collection that holds an entry
C4_Witness ==
  /\ last.op = "create_collection"
  /\ last.outcome = "return"
  /\ last.name = COLLECTION_NAME
  /\ last.pre[COLLECTION_NAME].exists
  /\ Len(last.pre[COLLECTION_NAME].objs) > 0
  /\ last.args = CustomProperties
  /\ last.pre[COLLECTION_NAME].props = DefaultProperties

\* C5: delete_collection of a collection that does not exist is a no-op (no
\* delete request, every collection unchanged, no error), and after
\* delete_collection(name) returns the collection does not exist and every
\* other collection is as before.
C5_DeleteIdempotent ==
  /\ (/\ last.op = "delete_collection"
      /\ ~last.pre[last.name].exists
      /\ ~last.transport)
     => /\ last.outcome = "return"
        /\ Sent(last.reqs, "delete") = {}
        /\ store = last.pre
  /\ (last.op = "delete_collection" /\ last.outcome = "return")
     => /\ ~store[last.name].exists
        /\ \A m \in Names \ {last.name} : store[m] = last.pre[m]

\* a delete of an absent collection beside a collection that holds entries
C5_Witness ==
  /\ last.op = "delete_collection"
  /\ last.outcome = "return"
  /\ last.name = "other"
  /\ ~last.pre["other"].exists
  /\ Len(store[COLLECTION_NAME].objs) > 0

\* C6: close never propagates a failure: in any adapter state and after any
\* number of earlier calls, close returns normally, also when the client's
\* close raises.
C6_CloseNeverRaises == last.op = "close" => last.outcome = "return"

\* a second close whose release call raised
C6_Witness ==
  /\ last.op = "close"
  /\ last.transport
  /\ closeCalls = 2
  /\ last.outcome = "return"

\* C7: over any sequence of close calls on one adapter the release of the
\* client is performed at most once.
C7_ReleasedOnce == closeCalls <= 1

\* the stored object at position k holds item `it`: the fields the item
\* carries, "" for a text field it lacks, and its vector
Holds(obj, it) ==
  /\ \A key \in {"title", "description", "query"} :
       obj.properties[key] = IF key \in DOMAIN it THEN it[key] ELSE ""
  /\ obj.vector = it.vector

\* C8: insert_many on a collection that does not exist first creates it with
\* the default schema (text fields title, description, query; no vectorizer)
\* and then inserts: it succeeds unless the backing store fails, and when
\* insert_many(name, items) returns normally the collection exists and holds
\* what it held before followed by every item of the batch, in batch order.
C8_InsertAutoCreates ==
  last.op = "insert_many" =>
    LET n == last.name
        before == last.pre[n].objs
        items == last.args
    IN /\ (~last.pre[n].exists /\ ~last.transport) => last.outcome = "return"
       /\ last.outcome = "return" =>
            /\ store[n].exists
            /\ Len(store[n].objs) = Len(before) + Len(items)
            /\ \A i \in 1..Len(before) : store[n].objs[i] = before[i]
            /\ \A i \in 1..Len(items) : Holds(store[n].objs[Len(before) + i], items[i])
            /\ \A m \in Names \ {n} : store[m] = last.pre[m]
            /\ ~last.pre[n].exists =>
                 /\ store[n].props = DefaultProperties
                 /\ store[n].vectorizer = "none"
                 /\ \E i, j \in 1..Len(last.reqs) :
                      /\ i < j
                      /\ last.reqs[i] = <<"create", n>>
                      /\ last.reqs[j] = <<"insert_many", n>>

\* a batch of two different items inserted into a collection that was absent
C8_Witness ==
  /\ last.op = "insert_many"
  /\ last.outcome = "return"
  /\ ~last.pre[last.name].exists
  /\ Len(last.args) = 2
  /\ last.args[1] /= last.args[2]

\* C9: query_nearest(name, vector, limit=k) on an existing collection returns
\* at most k results, exactly min(k, collection size) of them, and does not
\* fail because fewer than k entries exist.
C9_LimitRespected ==
  (/\ last.op = "query_nearest"
   /\ last.pre[last.name].exists
   /\ ~last.transport)
  => /\ last.outcome = "return"
     /\ Len(last.value) <= last.args.limit
     /\ Len(last.value) = Min(last.args.limit, Len(last.pre[last.name].objs))

\* a search with a limit below the number of entries held
C9_Witness ==
  /\ last.op = "query_nearest"
  /\ last.outcome = "return"
  /\ last.args.limit < Len(last.pre[last.name].objs)
  /\ Len(last.value) = last.args.limit

\* result record `rec` is the image of stored object `obj` for query vector q
ImageOf(rec, obj, q) ==
  /\ rec.title = obj.properties.title
  /\ rec.description = obj.properties.description
  /\ rec.query = obj.properties.query
  /\ rec.distance = Distance(obj.vector, q)

\* C10: the sequence query_nearest returns is non-decreasing in distance, and
\* it consists of entries of the collection with the smallest distances: no
\* entry left out is strictly closer than an entry returned.
C10_NearestFirst ==
  (last.op = "query_nearest" /\ last.outcome = "return") =>
    LET objs == last.pre[last.name].objs
        q == last.args.vector
        out == last.value
    IN /\ \A i, j \in 1..Len(out) : i < j => out[i].distance <= out[j].distance
       /\ \E r \in IndexSeqs(Len(objs), Len(out)) :
            /\ \A i \in 1..Len(out) : ImageOf(out[i], objs[r[i]], q)
            /\ \A k \in 1..Len(objs) :
                 (\A i \in 1..Len(out) : r[i] /= k)
                   => \A i \in 1..Len(out) : out[i].distance <= Distance(objs[k].vector, q)

\* two entries at different distances returned, the farther one stored first
C10_Witness ==
  /\ last.op = "query_nearest"
  /\ last.outcome = "return"
  /\ Len(last.value) = 2
  /\ last.value[1].distance < last.value[2].distance
  /\ Distance(last.pre[last.name].objs[1].vector, last.args.vector)
       > Distance(last.pre[last.name].objs[2].vector, last.args.vector)

\* The searches, direct and through the pipeline, over collections that are
\* created and deleted but never filled.
NextEmpty ==
  \/ DoCreateCollection
  \/ DoDeleteCollection
  \/ DoQueryNearest
  \/ GqsCall
  \/ GqsResume

SpecEmpty == Init /\ [][NextEmpty]_vars

\* the last call ran over COLLECTION_NAME existing and empty and no request of
\* it failed in transport
OverEmpty ==
  /\ last.pre[COLLECTION_NAME].exists
  /\ last.pre[COLLECTION_NAME].objs = <<>>
  /\ ~last.transport

\* C11: query_nearest on a collection that exists but is empty returns an
\* empty sequence and raises nothing, for any vector and any limit; and the
\* pipeline run against such a collection returns the success response
\* {queries: []} with no error field.
C11_EmptyCollection ==
  /\ (last.op = "query_nearest" /\ last.name = COLLECTION_NAME /\ OverEmpty)
       => (last.outcome = "return" /\ last.value = <<>>)
  /\ (last.op = Gqs /\ last.args.embed = "ok" /\ OverEmpty)
       => /\ last.outcome = "return"
          /\ IsSuccess(last.value)
          /\ last.value.queries = <<>>

\* a pipeline call that searched the empty collection
C11_Witness ==
  /\ last.op = Gqs
  /\ last.args.embed = "ok"
  /\ OverEmpty
  /\ Len(last.reqs) = 2
  /\ last.reqs[2] = <<"near_vector", COLLECTION_NAME>>
  /\ last.outcome = "return"

\* result record `rec` is the image of caller item `it` for query vector q
ImageOfItem(rec, it, q) ==
  /\ rec.title = Get(it, "title", "")
  /\ rec.description = Get(it, "description", "")
  /\ rec.query = Get(it, "query", "")
  /\ rec.distance = Distance(it.vector, q)

\* this step is a query_nearest that returns, right after an insert_many that
\* filled a fresh collection (absent or empty before) with a non-empty batch
RoundTrip ==
  /\ last.op = "insert_many"
  /\ last.outcome = "return"
  /\ last.pre[last.name].objs = <<>>
  /\ Len(last.args) > 0
  /\ last'.op = "query_nearest"
  /\ last'.name = last.name
  /\ last'.outcome = "return"

\* C12 as stated: after insert_many of a batch into a fresh collection,
\* query_nearest with a vector equal to an entry's own vector returns that
\* entry first, for every batch and every chosen entry, also when two entries
\* carry the same vector.
C12_RoundTripAsStated ==
  [][ RoundTrip =>
        \A i \in 1..Len(last.args) :
          last'.args.vector = last.args[i].vector
            => /\ Len(last'.value) > 0
               /\ ImageOfItem(last'.value[1], last.args[i], last'.args.vector)
    ]_vars

\* C12 amended: after insert_many of a batch into a fresh collection,
\* query_nearest with a vector equal to an entry's own vector returns first an
\* entry of the batch that carries that vector, at distance 0, which is minimal
\* among the returned distances; it is the chosen entry when no other entry of
\* the batch carries the same vector.
C12_RoundTrip ==
  [][ RoundTrip =>
        \A i \in 1..Len(last.args) :
          last'.args.vector = last.args[i].vector
            => LET out == last'.value
                   q == last'.args.vector
                   same == {j \in 1..Len(last.args) : last.args[j].vector = q}
               IN /\ Len(out) > 0
                  /\ out[1].distance = 0
                  /\ \A k \in 1..Len(out) : out[1].distance <= out[k].distance
                  /\ \E j \in same : ImageOfItem(out[1], last.args[j], q)
                  /\ same = {i} => ImageOfItem(out[1], last.args[i], q)
    ]_vars

\* a search with the vector that two different stored entries share
C12_Witness ==
  /\ last.op = "query_nearest"
  /\ last.outcome = "return"
  /\ Len(last.pre[last.name].objs) = 2
  /\ last.pre[last.name].objs[1] /= last.pre[last.name].objs[2]
  /\ last.pre[last.name].objs[1].vector = last.args.vector
  /\ last.pre[last.name].objs[2].vector = last.args.vector
  /\ Len(last.value) > 0
  /\ last.value[1].title = last.pre[last.name].objs[2].properties.title

\* The pipeline over a database as the adapter finds it when it connects:
\* COLLECTION_NAME absent, or holding up to one entry more than the pipeline
\* asks for. The entries are listed in one order only, A before B before C:
\* near_vector's answers do not depend on the order in which they were stored.
ItemOrder == <<ItemA, ItemB, ItemC>>

\* the batches of k entries in that order
SortedBatches(k) ==
  {[i \in 1..k |-> ItemOrder[ix[i]]] :
     ix \in {x \in [1..k -> 1..Len(ItemOrder)] :
               \A i, j \in 1..k : i < j => x[i] <= x[j]}}

FilledBatches == UNION {SortedBatches(k) : k \in 0..(PipelineLimit + 1)}

FilledCollections ==
  {Absent} \cup
  {[exists |-> TRUE, props |-> DefaultProperties, vectorizer |-> "none",
    objs |-> PrepareAll(items)] : items \in FilledBatches}

InitFilled ==
  /\ store \in {[n \in Names |-> IF n = COLLECTION_NAME THEN coll ELSE Absent] :
                  coll \in FilledCollections}
  /\ closed = FALSE
  /\ closeCalls = 0
  /\ pl = NoneInFlight
  /\ th = NoThread
  /\ last = NoCall

NextFilled ==
  \/ GqsCall
  \/ GqsResume

SpecFilled == InitFilled /\ [][NextFilled]_vars

\* C13: a success response of get_query_suggestions holds at most 3 queries
\* and is, position by position, the image of the search result: one
\* DashboardQuery per result, closest first, with title, description and query
\* copied, nothing dropped as a duplicate and nothing reordered.
C13_ImageOfSearch ==
  (last.op = Gqs /\ last.outcome = "return" /\ IsSuccess(last.value)) =>
    LET objs == last.pre[COLLECTION_NAME].objs
        q == Embedding(last.args.purpose)[1]
        out == last.value.queries
        d(k) == Distance(objs[k].vector, q)
    IN /\ Len(out) <= 3
       /\ Len(out) = Min(3, Len(objs))
       /\ \E r \in IndexSeqs(Len(objs), Len(out)) :
            /\ \A i \in 1..Len(out) :
                 /\ out[i].title = objs[r[i]].properties.title
                 /\ out[i].description = objs[r[i]].properties.description
                 /\ out[i].query = objs[r[i]].properties.query
            /\ \A i, j \in 1..Len(out) : i < j => d(r[i]) <= d(r[j])
            /\ \A k \in 1..Len(objs) :
                 (\A i \in 1..Len(out) : r[i] /= k) => \A i \in 1..Len(out) : d(r[i]) <= d(k)

\* four entries stored, three queries returned, two of them the same
C13_Witness ==
  /\ last.op = Gqs
  /\ last.outcome = "return"
  /\ IsSuccess(last.value)
  /\ Len(last.pre[COLLECTION_NAME].objs) = 4
  /\ Len(last.value.queries) = 3
  /\ last.value.queries[1] = last.value.queries[2]
  /\ last.value.queries[2] /= last.value.queries[3]

\* C14: within one pipeline invocation the steps run in the order Embed,
\* CheckCollection, Search: the store is asked nothing before the embedding
\* returned, query_nearest is called only after exists(COLLECTION_NAME)
\* returned true in that invocation, and never when exists returned false.
C14_StepOrder ==
  last.op = Gqs =>
    /\ last.reqs /= <<>> => (last.args.embed = "ok" /\ last.reqs[1] = <<"exists", COLLECTION_NAME>>)
    /\ \A j \in 1..Len(last.reqs) :
         last.reqs[j][1] = "near_vector"
           => /\ j = 2
              /\ last.reqs[j] = <<"near_vector", COLLECTION_NAME>>
              /\ last.pre[COLLECTION_NAME].exists
    /\ ~last.pre[COLLECTION_NAME].exists => Sent(last.reqs, "near_vector") = {}

\* an invocation that searched a collection holding entries after exists
\* returned true
C14_Witness ==
  /\ last.op = Gqs
  /\ last.outcome = "return"
  /\ last.reqs = << <<"exists", COLLECTION_NAME>>, <<"near_vector", COLLECTION_NAME>> >>
  /\ IsSuccess(last.value)
  /\ Len(last.value.queries) > 0

\* C15: when get_embedding raises, the pipeline goes directly to Error: in
\* that invocation neither exists nor query_nearest is called on the vector
\* store, and the response is {error: message, queries: []}.
C15_EmbedFailure ==
  (last.op = Gqs /\ last.args.embed = "raise") =>
    /\ last.reqs = <<>>
    /\ store = last.pre
    /\ last.outcome = "return"
    /\ IsFailure(last.value)

\* the embedding raised with a message while the collection held entries
C15_Witness ==
  /\ last.op = Gqs
  /\ last.args.embed = "raise"
  /\ last.outcome = "return"
  /\ last.value.error = "embedding service unavailable"
  /\ Len(last.pre[COLLECTION_NAME].objs) > 0

\* How one call get_query_suggestions(purpose, kw) ends on store s: the logging
\* line first, then the body, the embedding ending as e, the store's request
\* number f failing in transport (0: none) and the search answering r.
GetQuerySuggestions(s, isClosed, purpose, kw, e, f, r) ==
  IF JoinRaises(kw)
  THEN [outcome |-> "raise", value |-> <<>>, msg |-> "TypeError"]
  ELSE LET b == Body(Start(s, isClosed, f), purpose, e, r)
       IN [outcome |-> IF b.escaped THEN "raise" ELSE "return",
           value |-> b.response,
           msg |-> IF b.escaped THEN b.exc ELSE b.ctx.msg]

\* C16: the keywords argument has no influence on how get_query_suggestions
\* ends: on the store as it is, for the same purpose, the same behaviour of the
\* embedding client and of the database, any two keywords values give the same
\* outcome and the same response.
C16_KeywordsInert ==
  \A purpose \in Purposes, e \in EmbedOutcomes, f \in 0..2 :
    \A r \in Answers(store, COLLECTION_NAME, Embedding(purpose)[1], PipelineLimit) :
      \A kw1, kw2 \in Keywords :
        GetQuerySuggestions(store, closed, purpose, kw1, e, f, r)
          = GetQuerySuggestions(store, closed, purpose, kw2, e, f, r)

\* Two invocations of get_query_suggestions on one plugin and one adapter,
\* interleaved at the await, over a database that nobody changes meanwhile:
\* COLLECTION_NAME absent, empty, or holding the three entries of ItemOrder.
InitConcurrent ==
  /\ store \in {[n \in Names |-> IF n = COLLECTION_NAME THEN coll ELSE Absent] :
                  coll \in {Absent} \cup
                    {[exists |-> TRUE, props |-> DefaultProperties, vectorizer |-> "none",
                      objs |-> PrepareAll(items)] :
                       items \in {<<>>, ItemOrder}}}
  /\ closed = FALSE
  /\ closeCalls = 0
  /\ pl = NoneInFlight
  /\ th = NoThread
  /\ last = NoCall

NextConcurrent ==
  \/ \E i \in Invocations : GqsCallOf(i)
  \/ \E i \in Invocations : GqsResumeOf(i)

SpecConcurrent == InitConcurrent /\ [][NextConcurrent]_vars

\* `end` is a way the call get_query_suggestions(purpose, kw) can end when it
\* runs alone on store s
EndsAsAlone(end, s, isClosed, purpose, kw) ==
  \E e \in EmbedOutcomes, f \in 0..2 :
    \E r \in Answers(s, COLLECTION_NAME, Embedding(purpose)[1], PipelineLimit) :
      end = GetQuerySuggestions(s, isClosed, purpose, kw, e, f, r)

\* C17: two get_query_suggestions calls interleaved at the await are
\* independent: while an invocation is suspended no step of another changes its
\* frame, and when it resumes it ends as the same call run alone on the store
\* can end, for its own purpose, and leaves the other's frame and the store as
\* they were.
C17_Independent ==
  [][ \A i \in Invocations :
        /\ (pl[i].pc = "embed" /\ pl'[i].pc = "embed") => pl'[i] = pl[i]
        /\ (pl[i].pc = "embed" /\ pl'[i].pc = "idle")
             => /\ EndsAsAlone([outcome |-> last'.outcome, value |-> last'.value,
                                 msg |-> last'.msg],
                                last'.pre, closed, pl[i].purpose, pl[i].keywords)
                /\ last'.args.purpose = pl[i].purpose
                /\ \A j \in Invocations \ {i} : pl'[j] = pl[j]
                /\ store' = store
    ]_vars

\* an invocation returned its queries while the other one, called for another
\* purpose, was suspended at the await and still is
C17_Witness ==
  /\ last.op = Gqs
  /\ last.outcome = "return"
  /\ IsSuccess(last.value)
  /\ Len(last.value.queries) > 0
  /\ \E j \in last.args.beside :
       /\ pl[j].pc = "embed"
       /\ pl[j].purpose /= last.args.purpose

\* ------------------------------------------- two threads on one adapter
\* create_collection and insert_many are plain methods without a lock: called
\* from two threads their requests to the database interleave. Each thread
\* makes one call; a step is one request of it.
InFlight(t) == th[t].pc \notin {"idle", "done"}

\* the call context of thread t's next request
Ctx(t) == [Start(store, closed, 0) EXCEPT !.reqs = th[t].reqs]

\* thread t enters create_collection(n, schema) or insert_many(n, items)
ThreadCall(t) ==
  \E op \in {"create_collection", "insert_many"}, n \in Names, schema \in Schemas,
     items \in {b \in Batches : Len(b) <= 1} :
    /\ th[t].pc = "idle"
    /\ op = "create_collection" => items = <<>>
    /\ op = "insert_many" => schema = <<>>
    /\ th' = [u \in Threads |->
                IF u = t
                THEN [IdleThread EXCEPT
                        !.pc = IF op = "insert_many" THEN "im_exists" ELSE "cc_exists",
                        !.op = op, !.name = n, !.schema = schema, !.items = items,
                        !.pre = store,
                        !.alone = \A v \in Threads \ {t} : ~InFlight(v)]
                ELSE IF InFlight(u) THEN [th[u] EXCEPT !.alone = FALSE]
                ELSE th[u]]
    /\ UNCHANGED <<store, closed, closeCalls, pl, last>>

\* thread t has sent a request and stands in context c: its call goes on at
\* `next`, or is over when the request raised or nothing is left to do
Advance(t, frame, c, next) ==
  LET over == c.raised \/ next = "done"
      fr == [frame EXCEPT !.pc = IF over THEN "done" ELSE next,
                          !.reqs = c.reqs,
                          !.outcome = IF c.raised THEN "raise"
                                      ELSE IF over THEN "return" ELSE "none",
                          !.msg = c.msg]
  IN /\ th' = [th EXCEPT ![t] = fr]
     /\ store' = c.store
     /\ last' = IF over
                THEN [op |-> fr.op, name |-> fr.name,
                      args |-> IF fr.op = "insert_many" THEN fr.items ELSE fr.schema,
                      pre |-> fr.pre, outcome |-> fr.outcome, value |-> <<>>,
                      reqs |-> c.reqs, transport |-> c.transport, msg |-> c.msg]
                ELSE last
     /\ UNCHANGED <<closed, closeCalls, pl>>

\* `self.exists(collection_name)` of insert_many (line 93) or of
\* create_collection (line 67), and the branch taken on its answer
ThreadExists(t) ==
  /\ th[t].pc \in {"im_exists", "cc_exists"}
  /\ LET e == Exists(Ctx(t), th[t].name)
         found == e.value[1]
         next == IF th[t].pc = "im_exists"
                 THEN (IF ~found THEN "cc_exists" ELSE "im_insert")
                 ELSE IF ShouldCreate(found) THEN "cc_create"
                 ELSE IF th[t].op = "insert_many" THEN "im_insert" ELSE "done"
     IN Advance(t, [th[t] EXCEPT !.seen = Append(@, found)], e, next)

\* `self.client.collections.create(...)` of create_collection
ThreadCreate(t) ==
  /\ th[t].pc = "cc_create"
  /\ Advance(t, [th[t] EXCEPT !.createdOver = store[th[t].name].exists],
             SendCreate(Ctx(t), th[t].name, th[t].schema),
             IF th[t].op = "insert_many" THEN "im_insert" ELSE "done")

\* `collection.data.insert_many(prepared)` of insert_many
ThreadInsert(t) ==
  /\ th[t].pc = "im_insert"
  /\ Advance(t, th[t], SendInsert(Ctx(t), th[t].name, th[t].items), "done")

NextRace ==
  \/ \E t \in Threads : ThreadCall(t)
  \/ \E t \in Threads : ThreadExists(t)
  \/ \E t \in Threads : ThreadCreate(t)
  \/ \E t \in Threads : ThreadInsert(t)

SpecRace == Init /\ [][NextRace]_vars

\* the create requests thread t's call has sent
Creates(t) == Sent(th[t].reqs, "create")

\* C18 as stated: of two concurrent create_collection or insert_many calls for
\* the same absent name, in any interleaving, the database receives at most
\* one create request for the name, and no create request is sent for a name
\* that exists at that moment.
C18_OneCreateAsStated ==
  \A t, u \in Threads :
    (t /= u /\ th[t].op /= "" /\ th[u].op /= "" /\ th[t].name = th[u].name)
      => /\ Cardinality(Creates(t)) + Cardinality(Creates(u)) <= 1
         /\ ~th[t].createdOver

\* C18 amended: each of the two calls sends at most one create request, and
\* only right after an exists request of its own was answered false; calls that
\* do not overlap send at most one create between them and none for a name
\* that exists; a create sent by an overlapping call for a name that exists by
\* then is refused by the database and raises in its caller, whose call ends
\* there.
C18_OneCreate ==
  \A t \in Threads :
    /\ Cardinality(Creates(t)) <= 1
    /\ \A j \in Creates(t) :
         /\ j > 1
         /\ th[t].reqs[j - 1] = <<"exists", th[t].name>>
         /\ th[t].reqs[j] = <<"create", th[t].name>>
         /\ ~th[t].seen[Len(th[t].seen)]
    /\ th[t].alone
         => /\ ~th[t].createdOver
            /\ (th[t].op /= "" /\ th[t].pre[th[t].name].exists) => Creates(t) = {}
    /\ \A u \in Threads \ {t} :
         (th[t].alone /\ th[u].alone /\ th[t].op /= "" /\ th[t].name = th[u].name)
           => Cardinality(Creates(t)) + Cardinality(Creates(u)) <= 1
    /\ th[t].createdOver
         => /\ th[t].outcome = "raise"
            /\ th[t].msg = "refused: create"
            /\ Creates(t) = {Len(th[t].reqs)}

\* a create_collection and an insert_many for one name overlapped: both saw
\* the name absent, the insert_many created it and returned, the
\* create_collection sent its create for the name that existed by then
C18_Witness ==
  \E t, u \in Threads :
    /\ t /= u
    /\ th[t].pc = "done" /\ th[u].pc = "done"
    /\ th[t].name = th[u].name
    /\ th[t].op = "create_collection" /\ th[u].op = "insert_many"
    /\ ~th[t].alone /\ ~th[u].alone
    /\ th[t].createdOver
    /\ th[u].outcome = "return"

\* the operations that may change the store
Mutators == {"create_collection", "insert_many", "delete_collection"}

\* sequence a is the beginning of sequence b
IsPrefix(a, b) == Len(a) <= Len(b) /\ \A i \in 1..Len(a) : b[i] = a[i]

\* C19: the store changes only through create_collection, insert_many and
\* delete_collection: a collection comes into existence only by the first two
\* and ceases to exist only by the third, each for the name it was given; while
\* a collection exists its schema and its entries stay as they are (title,
\* description, query and vector; insert_many only appends); and exists,
\* query_nearest, get_collection_iterator, close and get_query_suggestions
\* change nothing.
C19_Frame ==
  [][ /\ store' /= store
           => /\ pl' = pl
              /\ last'.op \in Mutators
              /\ last'.pre = store
              /\ \A n \in Names \ {last'.name} : store'[n] = store[n]
      /\ \A n \in Names :
           /\ (~store[n].exists /\ store'[n].exists)
                => last'.op \in {"create_collection", "insert_many"}
           /\ (store[n].exists /\ ~store'[n].exists) => last'.op = "delete_collection"
           /\ (store[n].exists /\ store'[n].exists)
                => /\ store'[n].props = store[n].props
                   /\ IsPrefix(store[n].objs, store'[n].objs)
                   /\ store'[n].objs /= store[n].objs => last'.op = "insert_many"
    ]_vars

\* the iterator was read over a collection that holds two entries while a
\* pipeline invocation is suspended at its await
C19_Witness ==
  /\ last.op = "get_collection_iterator"
  /\ last.outcome = "return"
  /\ Len(last.value) = 2
  /\ store = last.pre
  /\ pl["first"].pc = "embed"

\* C20: over WeaviateAdapter the id of every DashboardQuery of every success
\* response is the empty string: the records query_nearest builds have no "id"
\* key, so the pipeline's obj.get("id", "") gives its default, and two
\* different stored entries come back with the same id.
C20_IdEmpty ==
  (last.op = Gqs /\ last.outcome = "return" /\ IsSuccess(last.value)) =>
    \A i \in 1..Len(last.value.queries) :
      /\ DOMAIN last.value.queries[i] = {"id", "title", "description", "query"}
      /\ last.value.queries[i].id = ""

\* a success response holding two different entries, both with the id ""
C20_Witness ==
  /\ last.op = Gqs
  /\ last.outcome = "return"
  /\ IsSuccess(last.value)
  /\ Len(last.value.queries) >= 2
  /\ last.value.queries[1].title /= last.value.queries[2].title
  /\ last.value.queries[1].id = last.value.queries[2].id

====
